---- MODULE Spec2Model ----
(***************************************************************************)
(* Model of the subscription routes (src/routes/subscriptions.js) over the *)
(* Subscription collection (src/models/Subscription.js).                   *)
(*                                                                         *)
(* The collection is a sequence of documents in insertion order; the _id   *)
(* of a document is its position.  Money is counted in cents; a monthly    *)
(* cost, which divides a yearly cost by 12, is counted exactly in twelfths *)
(* of a cent.  Time is counted in days.  The schema path notes is not      *)
(* modelled: no route reads it.                                            *)
(***************************************************************************)
EXTENDS Integers, Sequences, FiniteSets, TLC

VARIABLES store, now, req, resp

vars == <<store, now, req, resp>>

\* ------------------------------------------------------------- bounds
MaxSubs == 2
MaxTime == 1
MaxTotalsSubs == 3
MaxUpdateSubs == 2
MaxRenewalSubs == 6

\* ---------------------------------------------------------- constants
U1 == "u1"
U2 == "u2"
Users == {U1, U2}

BillingCycles == {"monthly", "yearly"}
Categories == {"entertainment", "productivity", "fitness", "education",
               "music", "news", "cloud", "other"}
DefaultCategory == "other"
DefaultColor == "#6366f1"
\* match: /^#[0-9A-F]{6}$/i, on the colors the requests use
ColorMatches(c) == c \in {"#6366f1", "#e50914"}
\* renewalDate is not required: the value of a document that has none
NoDate == -1
\* 30 * 24 * 60 * 60 * 1000 ms, in days
ThirtyDays == 30
UpcomingLimit == 5
MinCost == 0

\* The paths of the schema a document stores (besides _id)
SchemaPaths == {"user", "name", "cost", "billingCycle", "renewalDate",
                "category", "color", "isActive", "createdAt", "updatedAt"}

\* ------------------------------------------------------------ helpers
EmptyBody == [f \in {} |-> 0]

\* { ...a, ...o }: the object spread, the later object winning
Spread(a, o) ==
  [f \in (DOMAIN a) \cup (DOMAIN o) |-> IF f \in DOMAIN o THEN o[f] ELSE a[f]]

Has(b, f) == f \in DOMAIN b

\* String trim(), on the names the requests use
Trim(s) == IF s = " " THEN "" ELSE s

Range(s) == {s[i] : i \in DOMAIN s}

\* -------------------------------------------------------- monthlyCost
\* sub.billingCycle === 'yearly' ? sub.cost / 12 : sub.cost, in twelfths
\* of a cent
MonthlyCostUndivided(sub) == 12 * sub.cost
MonthlyCost(sub) ==
  IF sub.billingCycle = "yearly" THEN sub.cost ELSE 12 * sub.cost

\* parseFloat(x.toFixed(2)) of an amount x >= 0 given in twelfths of a
\* cent: the nearest cent, a tie going up
ToFixed2Floor(x12) == x12 \div 12
ToFixed2(x12) == (x12 + 6) \div 12

\* ---------------------------------------------------------- documents
Field(b, f, default) == IF Has(b, f) THEN b[f] ELSE default

\* new Subscription(fields) followed by save(): the schema's defaults, the
\* trim of name, and the pre('save') hook that sets updatedAt
NewDoc(fields, id, t) ==
  [id           |-> id,
   user         |-> fields.user,
   name         |-> Trim(fields.name),
   cost         |-> fields.cost,
   billingCycle |-> Field(fields, "billingCycle", "monthly"),
   renewalDate  |-> Field(fields, "renewalDate", NoDate),
   category     |-> Field(fields, "category", DefaultCategory),
   color        |-> Field(fields, "color", DefaultColor),
   isActive     |-> Field(fields, "isActive", TRUE),
   createdAt    |-> Field(fields, "createdAt", t),
   updatedAt    |-> t]

\* The schema's validators on the paths present in fields: required name,
\* cost >= min, the enums, the match of color
SchemaValid(fields) ==
  /\ Has(fields, "name") => Trim(fields.name) # ""
  /\ Has(fields, "cost") => fields.cost >= MinCost
  /\ Has(fields, "billingCycle") => fields.billingCycle \in BillingCycles
  /\ Has(fields, "category") => fields.category \in Categories
  /\ Has(fields, "color") => ColorMatches(fields.color)

\* ------------------------------------------------- request validation
\* body('name').trim(): the sanitizer writes the trimmed name back
Sanitize(b) ==
  IF Has(b, "name") THEN [b EXCEPT !["name"] = Trim(b.name)] ELSE b

\* body('cost').isFloat({ min: 0 })
CostIsFloatAny(c) == TRUE
CostIsFloatMin(c) == c >= MinCost

Err(bad, f) == IF bad THEN <<f>> ELSE <<>>

\* The validation chain of POST /: errors.array(), as the failing fields
PostErrors(b) ==
     Err(~Has(b, "name") \/ Trim(Field(b, "name", "")) = "", "name")
  \o Err(~Has(b, "cost") \/ ~CostIsFloatMin(Field(b, "cost", 0)), "cost")
  \o Err(~Has(b, "billingCycle")
           \/ Field(b, "billingCycle", "") \notin BillingCycles, "billingCycle")
  \o Err(Has(b, "category") /\ Field(b, "category", "") \notin Categories,
         "category")

\* The validation chain of PUT /:id: every field optional
PutErrors(b) ==
     Err(Has(b, "name") /\ Trim(Field(b, "name", "")) = "", "name")
  \o Err(Has(b, "cost") /\ ~CostIsFloatMin(Field(b, "cost", 0)), "cost")
  \o Err(Has(b, "billingCycle")
           /\ Field(b, "billingCycle", "") \notin BillingCycles, "billingCycle")
  \o Err(Has(b, "category") /\ Field(b, "category", "") \notin Categories,
         "category")

\* ---------------------------------------------------------- responses
Reply(status, success, message) ==
  [status |-> status, success |-> success, message |-> message,
   errors |-> <<>>, subscriptions |-> <<>>, totals |-> <<>>, stats |-> <<>>]

NotFound == Reply(404, FALSE, "Subscription not found")
ServerError == Reply(500, FALSE, "Server error")
ValidationFailed(errs) == [Reply(400, FALSE, "") EXCEPT !.errors = errs]
NoReply == Reply(0, FALSE, "")

\* ------------------------------------------------------------ queries
\* The positions of the documents matching { user: u, isActive: true },
\* in insertion order
RECURSIVE FindActiveFrom(_, _, _)
FindActiveFrom(st, u, i) ==
  IF i > Len(st) THEN <<>>
  ELSE (IF st[i].user = u /\ st[i].isActive THEN <<i>> ELSE <<>>)
       \o FindActiveFrom(st, u, i + 1)

FindActive(st, u) == FindActiveFrom(st, u, 1)

\* findOne / findOneAndUpdate filter { _id: id, user: u }: the position of
\* the matching document, 0 when there is none
FindOneAnyOwner(st, id, u) == IF id \in 1..Len(st) THEN id ELSE 0
FindOne(st, id, u) ==
  IF id \in 1..Len(st) /\ st[id].user = u THEN id ELSE 0

Docs(st, idx) == [k \in 1..Len(idx) |-> st[idx[k]]]

\* -------------------------------------------------------- aggregation
\* subscriptions.reduce(..., { monthly: 0, yearly: 0 }) of GET /: both
\* sums in twelfths of a cent
RECURSIVE TotalsFrom(_, _, _)
TotalsFrom(subs, i, acc) ==
  IF i > Len(subs) THEN acc
  ELSE TotalsFrom(subs, i + 1,
                  [monthly |-> acc.monthly + MonthlyCost(subs[i]),
                   yearly  |-> acc.yearly + MonthlyCost(subs[i]) * 12])

\* The totals object of the response, in cents
Totals(subs) ==
  LET acc == TotalsFrom(subs, 1, [monthly |-> 0, yearly |-> 0])
  IN  [monthly |-> ToFixed2(acc.monthly), yearly |-> ToFixed2(acc.yearly)]

\* acc[sub.category] = (acc[sub.category] || 0) + monthlyCost
AddCategory(acc, sub) ==
  [c \in (DOMAIN acc) \cup {sub.category} |->
     IF c = sub.category
       THEN (IF c \in DOMAIN acc THEN acc[c] ELSE 0) + MonthlyCost(sub)
       ELSE acc[c]]

\* subscriptions.reduce(..., {}) of GET /stats/overview: category -> sum of
\* monthlyCost, in twelfths of a cent
RECURSIVE BreakdownFrom(_, _, _)
BreakdownFrom(subs, i, acc) ==
  IF i > Len(subs) THEN acc
  ELSE BreakdownFrom(subs, i + 1, AddCategory(acc, subs[i]))

CategoryBreakdown(subs) == BreakdownFrom(subs, 1, EmptyBody)

\* sub.renewalDate && new Date(sub.renewalDate) <= thirtyDaysLater
RenewsSoon(sub, t) ==
  sub.renewalDate # NoDate /\ sub.renewalDate <= t + ThirtyDays

RECURSIVE FilterRenewsSoon(_, _, _)
FilterRenewsSoon(subs, i, t) ==
  IF i > Len(subs) THEN <<>>
  ELSE (IF RenewsSoon(subs[i], t) THEN <<subs[i]>> ELSE <<>>)
       \o FilterRenewsSoon(subs, i + 1, t)

\* x put into the sorted sequence s behind every element whose renewalDate
\* is not later than its own
RECURSIVE InsertByRenewal(_, _)
InsertByRenewal(s, x) ==
  IF s = <<>> THEN <<x>>
  ELSE IF s[Len(s)].renewalDate - x.renewalDate <= 0
         THEN Append(s, x)
         ELSE Append(InsertByRenewal(SubSeq(s, 1, Len(s) - 1), x), s[Len(s)])

\* .sort((a, b) => new Date(a.renewalDate) - new Date(b.renewalDate)): the
\* sort of an array is stable
RECURSIVE SortByRenewal(_)
SortByRenewal(s) ==
  IF s = <<>> THEN <<>>
  ELSE InsertByRenewal(SortByRenewal(SubSeq(s, 1, Len(s) - 1)), s[Len(s)])

\* .slice(0, 5)
SliceAll(s, n) == s
Slice(s, n) == SubSeq(s, 1, IF Len(s) < n THEN Len(s) ELSE n)

\* The projection of an upcoming renewal
Renewal(sub) ==
  [id |-> sub.id, name |-> sub.name, renewalDate |-> sub.renewalDate,
   cost |-> sub.cost, billingCycle |-> sub.billingCycle]

UpcomingRenewals(subs, t) ==
  LET top == Slice(SortByRenewal(FilterRenewsSoon(subs, 1, t)), UpcomingLimit)
  IN  [k \in 1..Len(top) |-> Renewal(top[k])]

\* ----------------------------------------------------------- handlers
\* Each handler as a function of the request, the collection st and the
\* time t: the collection it leaves and the response it sends.

\* .sort({ createdAt: -1 }): the orders of the positions idx in which
\* createdAt never rises; documents with equal createdAt come in any order
CreatedAtDescOrders(st, idx) ==
  {o \in [1..Len(idx) -> Range(idx)] :
     /\ \A j, k \in 1..Len(idx) : j # k => o[j] # o[k]
     /\ \A j, k \in 1..Len(idx) :
          j < k => st[o[j]].createdAt >= st[o[k]].createdAt}

\* GET /
ListResult(st, order) ==
  [store |-> st,
   resp  |-> [Reply(200, TRUE, "") EXCEPT
                !.subscriptions = Docs(st, order),
                !.totals = <<Totals(Docs(st, order))>>]]

\* GET /:id
GetResult(u, id, st) ==
  LET i == FindOne(st, id, u)
  IN  [store |-> st,
       resp  |-> IF i = 0 THEN NotFound
                 ELSE [Reply(200, TRUE, "") EXCEPT
                         !.subscriptions = <<st[i]>>]]

\* { ...req.body, user: req.userId }
PostFieldsBodyWins(u, b) == Spread([user |-> u], b)
PostFields(u, b) == Spread(b, [user |-> u])

\* POST /
PostResult(u, b, st, t) ==
  LET errs == PostErrors(b)
      fields == PostFields(u, Sanitize(b))
      doc == NewDoc(fields, Len(st) + 1, t)
  IN  IF errs # <<>> THEN [store |-> st, resp |-> ValidationFailed(errs)]
      ELSE IF ~SchemaValid(fields) THEN [store |-> st, resp |-> ServerError]
      ELSE [store |-> Append(st, doc),
            resp  |-> [Reply(201, TRUE, "Subscription created successfully")
                         EXCEPT !.subscriptions = <<doc>>]]

\* { ...req.body, updatedAt: Date.now() }
UpdateFieldsBodyWins(b, t) == Spread([updatedAt |-> t], b)
UpdateFields(b, t) == Spread(b, [updatedAt |-> t])

\* The $set of an update: the schema paths named by upd take its values
ApplyUpdate(doc, upd) ==
  [f \in DOMAIN doc |->
     IF f \in SchemaPaths /\ Has(upd, f) THEN upd[f] ELSE doc[f]]

\* PUT /:id
PutResult(u, id, b, st, t) ==
  LET errs == PutErrors(b)
      upd == UpdateFields(Sanitize(b), t)
      i == FindOne(st, id, u)
  IN  IF errs # <<>> THEN [store |-> st, resp |-> ValidationFailed(errs)]
      ELSE IF ~SchemaValid(upd) THEN [store |-> st, resp |-> ServerError]
      ELSE IF i = 0 THEN [store |-> st, resp |-> NotFound]
      ELSE LET doc == ApplyUpdate(st[i], upd)
           IN  [store |-> [st EXCEPT ![i] = doc],
                resp  |-> [Reply(200, TRUE, "Subscription updated successfully")
                             EXCEPT !.subscriptions = <<doc>>]]

\* DELETE /:id
DeleteResult(u, id, st, t) ==
  LET i == FindOne(st, id, u)
  IN  IF i = 0 THEN [store |-> st, resp |-> NotFound]
      ELSE [store |-> [st EXCEPT ![i] = ApplyUpdate(st[i],
                         [isActive |-> FALSE, updatedAt |-> t])],
            resp  |-> Reply(200, TRUE, "Subscription deleted successfully")]

\* GET /stats/overview
StatsResult(u, st, t) ==
  LET subs == Docs(st, FindActive(st, u))
  IN  [store |-> st,
       resp  |-> [Reply(200, TRUE, "") EXCEPT
                    !.stats = <<[totalSubscriptions |-> Len(subs),
                                 categoryBreakdown  |-> CategoryBreakdown(subs),
                                 upcomingRenewals   |-> UpcomingRenewals(subs, t)]>>]]

\* ------------------------------------------------------------ actions
\* The request in hand: its route, the authenticated user, the :id
\* parameter (0 when the route has none), the body, and the time it came
Request(op, u, id, b, t) ==
  [op |-> op, user |-> u, id |-> id, body |-> b, at |-> t]

\* No request in hand
Idle == Request("none", U1, 0, EmptyBody, 0)

Init ==
  /\ store = <<>>
  /\ now = 0
  /\ req = Idle
  /\ resp = NoReply

\* A handler runs from the arrival of its request to its response, the
\* awaited query included
Handle(r, result) ==
  /\ req = Idle
  /\ req' = r
  /\ store' = result.store
  /\ resp' = result.resp
  /\ UNCHANGED now

List(u) ==
  \E order \in CreatedAtDescOrders(store, FindActive(store, u)) :
    Handle(Request("list", u, 0, EmptyBody, now), ListResult(store, order))

Get(u, id) ==
  Handle(Request("get", u, id, EmptyBody, now), GetResult(u, id, store))

Post(u, b) ==
  Handle(Request("post", u, 0, b, now), PostResult(u, b, store, now))

Put(u, id, b) ==
  Handle(Request("put", u, id, b, now), PutResult(u, id, b, store, now))

Delete(u, id) ==
  Handle(Request("delete", u, id, EmptyBody, now),
         DeleteResult(u, id, store, now))

Stats(u) ==
  Handle(Request("stats", u, 0, EmptyBody, now), StatsResult(u, store, now))

\* The response is sent and the request is over
Done ==
  /\ req # Idle
  /\ req' = Idle
  /\ resp' = NoReply
  /\ UNCHANGED <<store, now>>

\* Time passes between requests
Tick ==
  /\ req = Idle
  /\ now < MaxTime
  /\ now' = now + 1
  /\ UNCHANGED <<store, req, resp>>

\* A POST that keeps the collection within n documents
PostWithin(u, b, n) ==
  /\ Len(PostResult(u, b, store, now).store) <= n
  /\ Post(u, b)

\* ----------------------------------------------- the CRUD specification
\* Two users' requests on every route, all at the same time of day
PostBodies ==
  { [name |-> "a", cost |-> 1200, billingCycle |-> "monthly", user |-> U2],
    [name |-> "b", cost |-> 100, billingCycle |-> "yearly",
     category |-> "music", renewalDate |-> 5],
    [name |-> "a", cost |-> -100, billingCycle |-> "monthly"] }

PutBodies ==
  { [name |-> "c"],
    [name |-> " ", cost |-> -100],
    [user |-> U2],
    [color |-> "red"],
    [isActive |-> TRUE, updatedAt |-> 0] }

\* The ids a request names: those of the collection and one beyond
Ids == 1..(MaxSubs + 1)

Next ==
  \/ \E u \in Users : List(u)
  \/ \E u \in Users, id \in Ids : Get(u, id)
  \/ \E u \in Users, b \in PostBodies : PostWithin(u, b, MaxSubs)
  \/ \E u \in Users, id \in Ids, b \in PutBodies : Put(u, id, b)
  \/ \E u \in Users, id \in Ids : Delete(u, id)
  \/ \E u \in Users : Stats(u)
  \/ Done

Spec == Init /\ [][Next]_vars

\* -------------------------------------------- the update specification
\* One user's subscriptions and two users' updates of them as time passes
UpdateBodies ==
  { [name |-> "c"],
    [name |-> " ", cost |-> -100],
    [color |-> "red"],
    [user |-> U2, updatedAt |-> 0] }

NextUpdate ==
  \/ PostWithin(U1, [name |-> "a", cost |-> 1200, billingCycle |-> "monthly"],
                MaxUpdateSubs)
  \/ \E u \in Users, id \in 1..(MaxUpdateSubs + 1), b \in UpdateBodies :
       Put(u, id, b)
  \/ Done
  \/ Tick

SpecUpdate == Init /\ [][NextUpdate]_vars

\* --------------------------------------------- the totals specification
\* One user's subscriptions of several costs and cycles, all created at
\* the same time, some of them soft-deleted; the list and its totals
TotalsBodies ==
  { [name |-> "a", cost |-> 1200, billingCycle |-> "monthly"],
    [name |-> "a", cost |-> 999, billingCycle |-> "monthly"],
    [name |-> "a", cost |-> 100, billingCycle |-> "yearly"],
    [name |-> "a", cost |-> 6, billingCycle |-> "yearly"] }

NextTotals ==
  \/ \E b \in TotalsBodies : PostWithin(U1, b, MaxTotalsSubs)
  \/ \E id \in 1..MaxTotalsSubs : Delete(U1, id)
  \/ List(U1)
  \/ Done

SpecTotals == Init /\ [][NextTotals]_vars

\* ------------------------------------------- the renewals specification
\* One user's subscriptions with no renewal date, one within 30 days and
\* one that comes within 30 days as time passes; the statistics
RenewalBodies ==
  { [name |-> "a", cost |-> 1200, billingCycle |-> "monthly"],
    [name |-> "a", cost |-> 1200, billingCycle |-> "monthly",
     renewalDate |-> 5],
    [name |-> "a", cost |-> 1200, billingCycle |-> "monthly",
     renewalDate |-> 31] }

NextRenewals ==
  \/ \E b \in RenewalBodies : PostWithin(U1, b, MaxRenewalSubs)
  \/ Stats(U1)
  \/ Done
  \/ Tick

SpecRenewals == Init /\ [][NextRenewals]_vars

\* ============================================================== claims

\* The documents of st that u owns, and those of them that are active
Owned(st, u) == {i \in 1..Len(st) : st[i].user = u}
ActiveOf(st, u) == {i \in Owned(st, u) : st[i].isActive}

\* The monthly cost as the specification states it, in twelfths of a cent:
\* cost / 12 for a yearly subscription, cost otherwise
StatedMonthlyCost(d) ==
  CASE d.billingCycle = "yearly" -> d.cost
    [] OTHER -> d.cost * 12

RECURSIVE SumStated(_, _)
SumStated(st, S) ==
  IF S = {} THEN 0
  ELSE LET i == CHOOSE x \in S : TRUE
       IN  StatedMonthlyCost(st[i]) + SumStated(st, S \ {i})

\* ---------------------------------------------------------------- C1
\* C1: no response to a list, stats or single-get request holds a
\* subscription whose isActive is false.
C1_InactiveNeverReturned ==
  /\ req.op \in {"list", "get"} =>
       \A k \in DOMAIN resp.subscriptions : resp.subscriptions[k].isActive
  /\ req.op = "stats" =>
       \A k \in DOMAIN resp.stats[1].upcomingRenewals :
         store[resp.stats[1].upcomingRenewals[k].id].isActive

\* ---------------------------------------------------------------- C2
\* C2: a request of one user never changes the documents another user
\* owns, which are what that user's list, single-get and stats requests
\* are answered from.
C2_OtherUsersUnaffected ==
  [][\A u \in Users :
       req'.user # u =>
         {store'[i] : i \in Owned(store', u)} = {store[i] : i \in Owned(store, u)}]_vars

\* ---------------------------------------------------------------- C3
Foreign(st, u, id) == id \in 1..Len(st) /\ st[id].user # u

C4_YearlyIsTwelveMonthly ==
  req.op = "list" => resp.totals[1].yearly = resp.totals[1].monthly * 12

\* C4 as amended: totals.monthly is the sum of monthlyCost over the
\* requester's active subscriptions rounded to the nearest cent (a half
\* going up), totals.yearly is twelve times the unrounded sum rounded to
\* the cent, which for costs in whole cents is that product itself; the
\* two are rounded separately, so yearly differs from monthly times 12 by
\* at most 6 cents and equals it exactly when the monthly sum is a whole
\* number of cents.
C4_TotalsRoundedSeparately ==
  req.op = "list" =>
    LET S == SumStated(store, ActiveOf(store, req.user))
        m == resp.totals[1].monthly
        y == resp.totals[1].yearly
    IN  /\ 12 * m - 6 <= S /\ S < 12 * m + 6
        /\ y = S
        /\ y - 12 * m <= 6 /\ 12 * m - y <= 6
        /\ (y = 12 * m) <=> (S % 12 = 0)

\* A list whose monthly sum is not a whole number of cents
C4_Witness ==
  /\ req.op = "list"
  /\ Len(resp.subscriptions) >= 2
  /\ SumStated(store, ActiveOf(store, req.user)) % 12 # 0
  /\ resp.totals[1].yearly # resp.totals[1].monthly * 12

\* ---------------------------------------------------------------- C5
\* The subscriptions that qualify as upcoming renewals of request r
Qualifying(st, r) ==
  {i \in ActiveOf(st, r.user) :
     st[i].renewalDate # NoDate /\ st[i].renewalDate <= r.at + 30}

\* What C5 states of the upcoming renewals up, but for the order of the
\* dates: at most 5 entries, each the projection of a qualifying
\* subscription, no subscription twice, and none left out that renews
\* before an entry, so that the entries are the first 5 by date
FirstFiveQualifying(up, Q) ==
  /\ Len(up) = IF Cardinality(Q) < 5 THEN Cardinality(Q) ELSE 5
  /\ \A k \in DOMAIN up :
       /\ up[k].id \in Q
       /\ up[k] = [id |-> up[k].id, name |-> store[up[k].id].name,
                   renewalDate |-> store[up[k].id].renewalDate,
                   cost |-> store[up[k].id].cost,
                   billingCycle |-> store[up[k].id].billingCycle]
  /\ \A j, k \in DOMAIN up : j # k => up[j].id # up[k].id
  /\ \A i \in Q \ {up[k].id : k \in DOMAIN up} :
       \A k \in DOMAIN up : up[k].renewalDate <= store[i].renewalDate

\* C5 as stated: the upcoming renewals are the first 5 of the qualifying
\* subscriptions, strictly ascending by renewalDate.
C5_StrictlyAscending ==
  req.op = "stats" =>
    LET up == resp.stats[1].upcomingRenewals
    IN  /\ FirstFiveQualifying(up, Qualifying(store, req))
        /\ \A j, k \in DOMAIN up :
             j < k => up[j].renewalDate < up[k].renewalDate

\* C5 as amended: the upcoming renewals are the first 5 of the qualifying
\* subscriptions, ascending by renewalDate; subscriptions with the same
\* renewalDate are all listed, next to each other.
C5_Ascending ==
  req.op = "stats" =>
    LET up == resp.stats[1].upcomingRenewals
    IN  /\ FirstFiveQualifying(up, Qualifying(store, req))
        /\ \A j, k \in DOMAIN up :
             j < k => up[j].renewalDate <= up[k].renewalDate

\* Statistics over more than 5 qualifying subscriptions, of two dates
C5_Witness ==
  /\ req.op = "stats"
  /\ Cardinality(Qualifying(store, req)) > 5
  /\ Len(resp.stats[1].upcomingRenewals) = 5
  /\ resp.stats[1].upcomingRenewals[1].renewalDate
       # resp.stats[1].upcomingRenewals[5].renewalDate

\* ---------------------------------------------------------------- C6
\* C6: categoryBreakdown has a key for exactly the categories of the
\* requester's active subscriptions, each with the sum of their monthly
\* costs; subscriptions without renewalDate count, and no subscriptions
\* give an empty breakdown.
C6_CategoryBreakdown ==
  req.op = "stats" =>
    LET cb == resp.stats[1].categoryBreakdown
        A == ActiveOf(store, req.user)
    IN  /\ resp.status = 200
        /\ DOMAIN cb = {store[i].category : i \in A}
        /\ \A c \in DOMAIN cb :
             cb[c] = SumStated(store, {i \in A : store[i].category = c})

\* Statistics over two categories, with a yearly subscription and one
\* without renewalDate, while the store holds nothing else of the user
C6_Witness ==
  /\ req.op = "stats"
  /\ Cardinality(DOMAIN resp.stats[1].categoryBreakdown) = 2
  /\ \E i \in ActiveOf(store, req.user) : store[i].billingCycle = "yearly"
  /\ \E i \in ActiveOf(store, req.user) : store[i].renewalDate = NoDate

\* ---------------------------------------------------------------- C7
OwnInactive(st, u, id) ==
  id \in 1..Len(st) /\ st[id].user = u /\ ~st[id].isActive

\* C7: a PUT (with a body that passes every validator) or a DELETE on the
\* requester's own soft-deleted subscription is answered 404 and leaves the
\* record unchanged.
C7_InactiveIsNotFound ==
  [][LET u == req'.user
         id == req'.id
         b == req'.body
     IN  OwnInactive(store, u, id) =>
           /\ Delete(u, id) => resp'.status = 404 /\ store' = store
           /\ Put(u, id, b) /\ PutErrors(b) = <<>> /\ SchemaValid(b) =>
                resp'.status = 404 /\ store' = store]_vars

\* ---------------------------------------------------------------- C8
\* C8: a POST whose cost is negative is answered 400 with an error for the
\* cost field and stores nothing.
C8_NegativeCostRejected ==
  [][LET u == req'.user
         b == req'.body
     IN  Post(u, b) /\ Has(b, "cost") /\ b.cost < 0 =>
           /\ resp'.status = 400
           /\ "cost" \in Range(resp'.errors)
           /\ store' = store]_vars

\* A POST of cost -1.00 was answered 400 while the store holds documents
C8_Witness ==
  /\ req.op = "post"
  /\ req.body.cost = -100
  /\ resp.status = 400
  /\ resp.errors = <<"cost">>
  /\ Len(store) > 0

\* ---------------------------------------------------------------- C9
\* C9: a successful PUT changes, in the one matched record, only the
\* fields of the body, which take the body's values, and updatedAt, which
\* takes the time of the request whatever the body says; every other
\* record is unchanged.
C9_PartialMerge ==
  [][LET u == req'.user
         id == req'.id
         b == req'.body
     IN  Put(u, id, b) /\ resp'.status = 200 =>
           /\ Len(store') = Len(store)
           /\ \A j \in 1..Len(store) : j # id => store'[j] = store[j]
           /\ \A f \in DOMAIN store[id] :
                store'[id][f] = IF f = "updatedAt" THEN now
                                ELSE IF f \in DOMAIN b THEN b[f]
                                ELSE store[id][f]
           /\ resp'.subscriptions = <<store'[id]>>]_vars

\* A PUT whose body names an earlier updatedAt succeeded on one of two
\* records
C9_Witness ==
  /\ req.op = "put"
  /\ resp.status = 200
  /\ Len(store) = 2
  /\ Has(req.body, "updatedAt")
  /\ req.body.updatedAt < req.at
  /\ store[req.id].updatedAt = req.at

\* --------------------------------------------------------------- C10
\* C10: the subscription a successful POST stores is owned by the
\* requester, whatever user the body names.
C10_OwnerIsRequester ==
  (req.op = "post" /\ resp.status = 201) =>
    /\ store[Len(store)].user = req.user
    /\ resp.subscriptions = <<store[Len(store)]>>

\* A POST whose body names another user was answered 201
C10_Witness ==
  /\ req.op = "post"
  /\ resp.status = 201
  /\ Has(req.body, "user")
  /\ req.body.user # req.user

====
